---- MODULE Spec2Model ----
(***************************************************************************)
(* React-Custom-Tools: the auth reducer and provider (authReducer.js,      *)
(* AuthProvider.jsx, authTypes.js), the request executor (useFetch.js,     *)
(* duplicated as useApi), the counter (useCounter.js) and the form manager *)
(* (useForm.js) as state machines.                                         *)
(***************************************************************************)
EXTENDS Integers, Sequences, FiniteSets, TLC

VARIABLES
    \* ---- auth ----
    storage,      \* the sessionStorage slot `name`: <<>> absent, <<text>> present
    provider,     \* AuthProvider: "idle" (not rendered), "mounted", "crashed" (render threw)
    authState,    \* what a consumer of AuthContext reads: {logged, data}
    warned,       \* console.warn was called by initializeAuthState
    lastCall,     \* the last onLogIn / onLogOut call served by the provider
    redState,     \* authReducer: the state returned by the last application
    redPrev,      \* authReducer: the state it was applied to
    redAction,    \* authReducer: the action it was applied to
    \* ---- request executor (one useFetch / useApi instance) ----
    headersOpt,   \* options.headers: "omitted", "inline" (new object each render), "stable"
    autoFetch,    \* options.autoFetch
    phase,        \* owning unit: "idle" (not rendered), "mounted", "torn" (unmounted)
    data,         \* state cell: <<>> null, <<body>>: the value last handed to setData
    hasError,     \* state cell: <<>> null, <<message>>
    isLoading,    \* state cell
    needRender,   \* a state update is waiting for the re-render it causes
    controllerRef,\* controllerRef.current: 0 null, c the AbortController of call c
    calls,        \* the calls of request(), by number
    nCalls,       \* calls started so far
    pendingAbort, \* call whose AbortError rejection waits in the microtask queue (0 none)
    lastEv,       \* the last step of a call: its start or its completion
    lateWrites,   \* state cells written after teardown
    autoGets,     \* GETs issued by the autoFetch effect
    extRendered,  \* some re-render was caused from outside (parent, other state)
    \* ---- counter (one useCounter instance) ----
    cPhase,       \* owning unit: "idle" (not rendered), "mounted"
    count,        \* state cell: the value last handed to setCount
    rCount,       \* `count` as the last render read it: what its closures hold
    rInit,        \* `initialValue` of the last render: what its reset holds
    init0,        \* `initialValue` of the first render (construction)
    cLast,        \* the last step of the counter
    pair,         \* an increment(a) and the decrement(a) that follows it
    \* ---- form manager (one useForm instance) ----
    fPhase,       \* owning unit: "idle" (not rendered), "mounted"
    initialFormOpt, \* initialForm argument: "omitted", "inline" (new object each render), "stable"
    initialForm,  \* the mapping the initialForm argument holds
    validateOpt,  \* validateFn argument: "omitted", "inline" (new function each render), "stable"
    validateFn,   \* which validation function it is
    formState,    \* state cell: the mapping last handed to setFormState
    formIsInitial,\* formState is the very object the last render got as initialForm
    errors,       \* state cell: the mapping last handed to setErrors
    isValid,      \* isValid as the last render computed it
    formStateSet, \* setFormState changed the cell since the last render
    fNeedRender,  \* a state update is waiting for the re-render it causes
    fLast,        \* the last call of the caller: onInputChange / onResetForm
    userCalls,    \* calls made by the caller so far
    renderParity  \* number of renders of the owning unit so far, modulo 2

authVars == <<storage, provider, authState, warned, lastCall, redState, redPrev, redAction>>

fetchVars == <<headersOpt, autoFetch, phase, data, hasError, isLoading, needRender,
               controllerRef, calls, nCalls, pendingAbort, lastEv, lateWrites, autoGets,
               extRendered>>

counterVars == <<cPhase, count, rCount, rInit, init0, cLast, pair>>

formVars == <<fPhase, initialFormOpt, initialForm, validateOpt, validateFn, formState,
              formIsInitial, errors, isValid, formStateSet, fNeedRender, fLast, userCalls,
              renderParity>>

vars == <<authVars, fetchVars, counterVars, formVars>>

(***************************************************************************)
(* JavaScript values, as far as the auth code looks at them: a type tag   *)
(* and the value's content as text.                                        *)
(***************************************************************************)
JsUndefined == [t |-> "undefined", v |-> ""]
JsNull      == [t |-> "null", v |-> ""]
JsBool(b)   == [t |-> "boolean", v |-> IF b THEN "true" ELSE "false"]
JsNum(txt)  == [t |-> "number", v |-> txt]
JsStr(txt)  == [t |-> "string", v |-> txt]
JsObj(body) == [t |-> "object", v |-> body]

\* The user payloads handed to LOGIN / onLogIn.
Payloads ==
    { JsUndefined, JsNull, JsBool(FALSE), JsBool(TRUE), JsNum("0"), JsNum("1"),
      JsStr(""), JsStr("a"), JsObj("\"id\":1") }

\* ToBoolean: `!!x`, `x ? a : b`.
Truthy(x) ==
    CASE x.t \in {"undefined", "null"} -> FALSE
      [] x.t = "boolean" -> x.v = "true"
      [] x.t = "number"  -> x.v # "0"
      [] x.t = "string"  -> x.v # ""
      [] OTHER -> TRUE

\* JSON.stringify(x): a string, or undefined for undefined.
JSONstringify(x) ==
    CASE x.t = "undefined" -> JsUndefined
      [] x.t = "null"      -> JsStr("null")
      [] x.t = "string"    -> JsStr("\"" \o x.v \o "\"")
      [] x.t = "object"    -> JsStr("{" \o x.v \o "}")
      [] OTHER             -> JsStr(x.v)

\* String(x), the coercion Storage.setItem applies to its value argument.
ToDOMString(x) ==
    CASE x.t = "string"    -> x.v
      [] x.t = "undefined" -> "undefined"
      [] x.t = "null"      -> "null"
      [] x.t = "object"    -> "[object Object]"
      [] OTHER             -> x.v

\* JSON.parse(text): [ok, value]; ok = FALSE is a thrown SyntaxError.
JSONparse(text) ==
    CASE text = "null"        -> [ok |-> TRUE, value |-> JsNull]
      [] text = "true"        -> [ok |-> TRUE, value |-> JsBool(TRUE)]
      [] text = "false"       -> [ok |-> TRUE, value |-> JsBool(FALSE)]
      [] text = "0"           -> [ok |-> TRUE, value |-> JsNum("0")]
      [] text = "1"           -> [ok |-> TRUE, value |-> JsNum("1")]
      [] text = " 1"          -> [ok |-> TRUE, value |-> JsNum("1")]
      [] text = "\"\""        -> [ok |-> TRUE, value |-> JsStr("")]
      [] text = "\"a\""       -> [ok |-> TRUE, value |-> JsStr("a")]
      [] text = "{\"id\":1}"  -> [ok |-> TRUE, value |-> JsObj("\"id\":1")]
      [] text = "{ \"id\": 1 }" -> [ok |-> TRUE, value |-> JsObj("\"id\":1")]
      [] OTHER                -> [ok |-> FALSE, value |-> JsUndefined]

\* What the storage slot may hold when the provider is activated.
SlotTexts ==
    { "", "null", "true", "false", "0", "1", " 1", "\"\"", "\"a\"", "{\"id\":1}",
      "{ \"id\": 1 }", "undefined", "{bad" }

ValidJsonTexts == { txt \in SlotTexts : JSONparse(txt).ok }

\* Object spread / property override: {...base, ...over}.
Spread(base, over) ==
    [k \in DOMAIN base \cup DOMAIN over |-> IF k \in DOMAIN over THEN over[k] ELSE base[k]]

(***************************************************************************)
(* authTypes.js, authReducer.js                                            *)
(***************************************************************************)
authTypes == [login |-> "[Auth] Log in", logout |-> "[Auth] Log out"]

initialAuthState == [logged |-> FALSE, data |-> JsNull]

\* authReducer with the default branch resetting instead of passing through.
authReducerResetOnUnknown(initialState, action) ==
    CASE action.type = authTypes.login ->
            Spread(initialState, [logged |-> TRUE, data |-> action.payload])
      [] OTHER ->
            Spread(initialAuthState, << >>)

authReducer(initialState, action) ==
    CASE action.type = authTypes.login ->
            Spread(initialState, [logged |-> TRUE, data |-> action.payload])
      [] action.type = authTypes.logout ->
            Spread(initialAuthState, << >>)
      [] OTHER ->
            Spread(initialState, << >>)

\* The action tags the reducer is applied to: its two own and a foreign one.
ActionTypes == { authTypes.login, authTypes.logout, "[Auth] Refresh" }

(***************************************************************************)
(* AuthProvider.jsx                                                        *)
(***************************************************************************)
\* sessionStorage.getItem(name): the text, or null when the slot is absent.
getItem(slot) == IF slot = << >> THEN JsNull ELSE JsStr(slot[1])

\* initializeAuthState(name): [state, warn]; warn is the console.warn of the catch.
initializeAuthState(slot) ==
    LET raw == getItem(slot) IN
    IF ~Truthy(raw)
    THEN [state |-> Spread(initialAuthState, [logged |-> Truthy(JsNull), data |-> JsNull]),
          warn |-> FALSE]
    ELSE LET parsed == JSONparse(raw.v) IN
         IF parsed.ok
         THEN [state |-> Spread(initialAuthState,
                                [logged |-> Truthy(parsed.value), data |-> parsed.value]),
               warn |-> FALSE]
         ELSE [state |-> Spread(initialAuthState, << >>), warn |-> TRUE]

\* React's useReducer(reducer, initialArg, init) on mount: the initial state is
\* init(initialArg) when init is not undefined, else initialArg.  `init` is given
\* as [kind, value]: kind "undefined", "function" (value: what it returns for
\* initialArg) or "object" (value: the object).  Calling a non-function throws.
mountReducer(initialArg, init) ==
    CASE init.kind = "undefined" -> [threw |-> FALSE, state |-> initialArg]
      [] init.kind = "function"  -> [threw |-> FALSE, state |-> init.value]
      [] OTHER                   -> [threw |-> TRUE,  state |-> initialArg]

\* The useReducer call of AuthProvider: the third argument is the object that
\* initializeAuthState(name) returned, not a function.
providerReducerMount(slot) ==
    mountReducer(initialAuthState,
                 [kind |-> "object", value |-> initializeAuthState(slot).state])

NoCall == [op |-> "none", payload |-> JsUndefined]

\* <AuthProvider name=...> is rendered for the first time.
Activate ==
    /\ provider = "idle"
    /\ LET seed == initializeAuthState(storage)
           m    == providerReducerMount(storage)
       IN /\ warned' = (warned \/ seed.warn)
          /\ IF m.threw
             THEN /\ provider' = "crashed"
                  /\ authState' = authState
             ELSE /\ provider' = "mounted"
                  /\ authState' = m.state
    /\ UNCHANGED <<storage, lastCall, redState, redPrev, redAction, fetchVars, counterVars, formVars>>

\* onLogIn(data): dispatch LOGIN, then write the serialized payload.
onLogIn(userData) ==
    /\ provider = "mounted"
    /\ authState' = authReducer(authState, [type |-> authTypes.login, payload |-> userData])
    /\ storage' = << ToDOMString(JSONstringify(userData)) >>
    /\ lastCall' = [op |-> "onLogIn", payload |-> userData]
    /\ UNCHANGED <<provider, warned, redState, redPrev, redAction, fetchVars, counterVars, formVars>>

\* onLogOut(): dispatch LOGOUT, then remove the slot.
onLogOut ==
    /\ provider = "mounted"
    /\ authState' = authReducer(authState, [type |-> authTypes.logout, payload |-> JsUndefined])
    /\ storage' = << >>
    /\ lastCall' = [op |-> "onLogOut", payload |-> JsUndefined]
    /\ UNCHANGED <<provider, warned, redState, redPrev, redAction, fetchVars, counterVars, formVars>>

\* Code outside the provider (an earlier page of the session) writes the slot.
StorageWrite ==
    /\ provider = "idle"
    /\ \E txt \in SlotTexts : storage' = <<txt>>
    /\ UNCHANGED <<provider, authState, warned, lastCall, redState, redPrev, redAction, fetchVars, counterVars, formVars>>

\* authReducer applied to the state it returned last and any action.
ReducerStep ==
    /\ \E ty \in ActionTypes, p \in Payloads :
          /\ redAction' = [type |-> ty, payload |-> p]
          /\ redState' = authReducer(redState, [type |-> ty, payload |-> p])
    /\ redPrev' = redState
    /\ UNCHANGED <<storage, provider, authState, warned, lastCall, fetchVars, counterVars, formVars>>

\* authReducer is first applied to the static initial state or to a state
\* initializeAuthState derived from some slot content.
SeedStates ==
    { initialAuthState } \cup { initializeAuthState(<<txt>>).state : txt \in SlotTexts }

AuthInit ==
    /\ storage = << >>
    /\ provider = "idle"
    /\ authState = Spread(initialAuthState, << >>)
    /\ warned = FALSE
    /\ lastCall = NoCall
    /\ redState \in SeedStates
    /\ redPrev = redState
    /\ redAction = [type |-> "none", payload |-> JsUndefined]

\* onLogIn and onLogOut are no disjuncts: they are enabled only in a mounted
\* provider, and Activate never ends in one (ProviderNeverMounts below).
AuthNext ==
    \/ StorageWrite
    \/ Activate
    \/ ReducerStep

(***************************************************************************)
(* useFetch.js (and its copy useApi): one instance of the hook.  The state *)
(* cells data / hasError / isLoading hold the value last handed to their   *)
(* setter; a setter call that changes a cell of a mounted unit asks for a  *)
(* re-render.  One action is one task of the event loop; the continuation  *)
(* of an aborted call is a microtask and runs before any other task.       *)
(***************************************************************************)
MaxCalls == 3

CallIds == 1..MaxCalls

\* JSON bodies a 2xx response may carry.
Bodies == { "A", "B" }

\* What `await fetch(...)` ends with: a response, or a network failure.
Responses ==
    { [kind |-> "http", status |-> 200, statusText |-> "OK"],
      [kind |-> "http", status |-> 404, statusText |-> "Not Found"],
      [kind |-> "http", status |-> 500, statusText |-> "Internal Server Error"],
      [kind |-> "network", status |-> 0, statusText |-> ""] }

\* What `await resp.json()` ends with: the parsed body, or a SyntaxError.
JsonResults ==
    { [ok |-> TRUE, value |-> b] : b \in Bodies } \cup { [ok |-> FALSE, value |-> ""] }

\* Request bodies handed to post / put / patch.
RequestBodies == { JsNull, JsObj("\"id\":1") }

\* Response.ok: status in the range 200-299.
RespOk(status) == status >= 200 /\ status <= 299

\* The message without the status text.
HttpErrorMessageStatusOnly(status, statusText) ==
    "HTTP " \o ToString(status)

\* `HTTP ${resp.status}: ${resp.statusText}`
HttpErrorMessage(status, statusText) ==
    "HTTP " \o ToString(status) \o ": " \o statusText

InFlight == { "fetching", "reading" }

NoCallRec ==
    [status |-> "unused", aborted |-> FALSE, outcome |-> "none", wrote |-> {},
     dataBefore |-> << >>]

NoEv == [kind |-> "none", call |-> 0, method |-> "", body |-> << >>, status |-> 0]

\* const { headers = {}, ... } = options: is `headers` of this render the object
\* of the previous render?
HeadersIdentityKept == headersOpt = "stable"

\* useCallback(fn, [url, headers]): the previous function is returned when no
\* dependency changed (url is a constant string).
RequestIdentityKept == HeadersIdentityKept

\* useEffect(..., [request, autoFetch]): cleanup and effect run again after a
\* re-render when a dependency changed.
EffectDepsChanged == ~RequestIdentityKept

\* A catch that stores every error, an AbortError too.
StoresAnyError(errName) == TRUE

\* catch (err): every error but an AbortError is stored.
StoresError(errName) == errName # "AbortError"

\* A setter call asks for a re-render when the unit is mounted and the value changes.
Rerenders(ph, changed) == ph = "mounted" /\ changed

\* request without setHasError(null).
requestKeepingError(method, body, nr, base, ph) ==
    LET c == nCalls + 1 IN
    /\ nCalls < MaxCalls
    /\ isLoading' = TRUE
    /\ hasError' = hasError
    /\ needRender' = (nr \/ Rerenders(ph, ~isLoading))
    /\ controllerRef' = c
    /\ calls' = [base EXCEPT ![c] = [NoCallRec EXCEPT !.status = "fetching",
                                                         !.dataBefore = data]]
    /\ nCalls' = c
    /\ lastEv' = [kind |-> "start", call |-> c, method |-> method,
                  body |-> IF Truthy(body) THEN << JSONstringify(body).v >> ELSE << >>,
                  status |-> 0]
    /\ data' = data

\* request keeping the controller of an earlier call in controllerRef.
requestKeepingController(method, body, nr, base, ph) ==
    LET c == nCalls + 1 IN
    /\ nCalls < MaxCalls
    /\ isLoading' = TRUE
    /\ hasError' = << >>
    /\ needRender' = (nr \/ Rerenders(ph, ~isLoading) \/ Rerenders(ph, hasError # << >>))
    /\ controllerRef' = IF controllerRef # 0 THEN controllerRef ELSE c
    /\ calls' = [base EXCEPT ![c] = [NoCallRec EXCEPT !.status = "fetching",
                                                         !.dataBefore = data]]
    /\ nCalls' = c
    /\ lastEv' = [kind |-> "start", call |-> c, method |-> method,
                  body |-> IF Truthy(body) THEN << JSONstringify(body).v >> ELSE << >>,
                  status |-> 0]
    /\ data' = data

\* request(method, body): the synchronous part, up to `await fetch(...)`.
\*   nr: needRender before the call; base: the calls before the call; ph: the
\*   unit's phase as the call runs.
request(method, body, nr, base, ph) ==
    LET c == nCalls + 1 IN
    /\ nCalls < MaxCalls
    /\ isLoading' = TRUE
    /\ hasError' = << >>
    /\ needRender' = (nr \/ Rerenders(ph, ~isLoading) \/ Rerenders(ph, hasError # << >>))
    /\ controllerRef' = c
    /\ calls' = [base EXCEPT ![c] = [NoCallRec EXCEPT !.status = "fetching",
                                                         !.dataBefore = data]]
    /\ nCalls' = c
    /\ lastEv' = [kind |-> "start", call |-> c, method |-> method,
                  body |-> IF Truthy(body) THEN << JSONstringify(body).v >> ELSE << >>,
                  status |-> 0]
    /\ data' = data

\* controllerRef.current.abort(), guarded by `if (controllerRef.current)`.
AbortedCalls == IF controllerRef # 0
                THEN [calls EXCEPT ![controllerRef].aborted = TRUE]
                ELSE calls

\* The call whose pending promise the abort rejects.
AbortRejects == IF controllerRef # 0 /\ calls[controllerRef].status \in InFlight
                THEN controllerRef
                ELSE 0

\* The autoFetch effect body.
AutoFetchEffect(base, ph) ==
    IF autoFetch
    THEN /\ request("GET", JsNull, FALSE, base, ph)
         /\ autoGets' = autoGets + 1
    ELSE /\ calls' = base
         /\ needRender' = FALSE
         /\ UNCHANGED <<isLoading, hasError, data, controllerRef, nCalls, lastEv, autoGets>>

\* First render of the owning unit, then its effects.
Mount ==
    /\ phase = "idle"
    /\ phase' = "mounted"
    /\ AutoFetchEffect(calls, "mounted")
    /\ UNCHANGED <<headersOpt, autoFetch, pendingAbort, lateWrites, extRendered, authVars, counterVars, formVars>>

\* get(), post(body), put(body), patch(body), remove() of the returned record.
Invoke(method, body) ==
    /\ phase = "mounted"
    /\ pendingAbort = 0
    /\ request(method, body, needRender, calls, phase)
    /\ UNCHANGED <<headersOpt, autoFetch, phase, pendingAbort, lateWrites, autoGets,
                   extRendered, authVars, counterVars, formVars>>

get == Invoke("GET", JsNull)

post == \E body \in RequestBodies : Invoke("POST", body)

put == \E body \in RequestBodies : Invoke("PUT", body)

patch == \E body \in RequestBodies : Invoke("PATCH", body)

remove == Invoke("DELETE", JsNull)

\* A re-render of the owning unit and the effects that follow it.
Render(external) ==
    /\ phase = "mounted"
    /\ pendingAbort = 0
    /\ external \/ needRender
    /\ extRendered' = (extRendered \/ external)
    /\ IF EffectDepsChanged
       THEN /\ pendingAbort' = AbortRejects
            /\ AutoFetchEffect(AbortedCalls, phase)
       ELSE /\ needRender' = FALSE
            /\ UNCHANGED <<pendingAbort, isLoading, hasError, data, controllerRef, calls,
                           nCalls, lastEv, autoGets>>
    /\ UNCHANGED <<headersOpt, autoFetch, phase, lateWrites, authVars, counterVars, formVars>>

RenderOnStateUpdate == Render(FALSE)

RenderFromOutside == Render(TRUE)

\* The owning unit unmounts: the effect's cleanup runs.
Unmount ==
    /\ phase = "mounted"
    /\ pendingAbort = 0
    /\ phase' = "torn"
    /\ pendingAbort' = AbortRejects
    /\ calls' = AbortedCalls
    /\ needRender' = FALSE
    /\ UNCHANGED <<headersOpt, autoFetch, data, hasError, isLoading, controllerRef, nCalls,
                   lastEv, lateWrites, autoGets, extRendered, authVars, counterVars, formVars>>

Late(cells) == IF phase = "torn" THEN lateWrites \cup cells ELSE lateWrites

\* The catch and finally blocks of call c for an error `errName: message`.
Catch(c, errName, message, evKind, status) ==
    /\ hasError' = IF StoresError(errName) THEN << message >> ELSE hasError
    /\ isLoading' = FALSE
    /\ calls' = [calls EXCEPT ![c].status = "settled",
                              ![c].outcome = IF errName = "AbortError"
                                             THEN "cancelled" ELSE "failure",
                              ![c].wrote = IF StoresError(errName)
                                           THEN @ \cup {"hasError"} ELSE @]
    /\ needRender' = (needRender \/ Rerenders(phase, isLoading)
                                 \/ Rerenders(phase, hasError' # hasError))
    /\ lateWrites' = Late(IF StoresError(errName)
                          THEN {"hasError", "isLoading"} ELSE {"isLoading"})
    /\ lastEv' = [kind |-> evKind, call |-> c, method |-> "", body |-> << >>,
                  status |-> status]
    /\ data' = data

\* `await fetch(...)` of call c ends with response r (or the network failure r).
Respond(c, r) ==
    /\ pendingAbort = 0
    /\ calls[c].status = "fetching"
    /\ IF r.kind = "network"
       THEN Catch(c, "TypeError", "Failed to fetch", "networkError", 0)
       ELSE IF ~RespOk(r.status)
       THEN Catch(c, "Error", HttpErrorMessage(r.status, r.statusText), "httpError",
                  r.status)
       ELSE /\ calls' = [calls EXCEPT ![c].status = "reading"]
            /\ UNCHANGED <<data, hasError, isLoading, needRender, lastEv, lateWrites>>
    /\ UNCHANGED <<headersOpt, autoFetch, phase, controllerRef, nCalls, pendingAbort,
                   autoGets, extRendered, authVars, counterVars, formVars>>

FetchSettles == \E c \in CallIds, r \in Responses : Respond(c, r)

\* The end of a call that also clears hasError when it succeeds.
BodyReadClearingError(c, j) ==
    /\ pendingAbort = 0
    /\ calls[c].status = "reading"
    /\ IF j.ok
       THEN /\ data' = << j.value >>
            /\ isLoading' = FALSE
            /\ calls' = [calls EXCEPT ![c].status = "settled", ![c].outcome = "success",
                                      ![c].wrote = @ \cup {"data"}]
            /\ needRender' = (needRender \/ Rerenders(phase, isLoading)
                                         \/ Rerenders(phase, data' # data))
            /\ lateWrites' = Late({"data", "isLoading"})
            /\ lastEv' = [kind |-> "success", call |-> c, method |-> "", body |-> << >>,
                          status |-> 0]
            /\ hasError' = << >>
       ELSE Catch(c, "SyntaxError", "Unexpected end of JSON input", "jsonError", 0)
    /\ UNCHANGED <<headersOpt, autoFetch, phase, controllerRef, nCalls, pendingAbort,
                   autoGets, extRendered, authVars, counterVars, formVars>>

\* `await resp.json()` of call c ends with j.
BodyRead(c, j) ==
    /\ pendingAbort = 0
    /\ calls[c].status = "reading"
    /\ IF j.ok
       THEN /\ data' = << j.value >>
            /\ isLoading' = FALSE
            /\ calls' = [calls EXCEPT ![c].status = "settled", ![c].outcome = "success",
                                      ![c].wrote = @ \cup {"data"}]
            /\ needRender' = (needRender \/ Rerenders(phase, isLoading)
                                         \/ Rerenders(phase, data' # data))
            /\ lateWrites' = Late({"data", "isLoading"})
            /\ lastEv' = [kind |-> "success", call |-> c, method |-> "", body |-> << >>,
                          status |-> 0]
            /\ hasError' = hasError
       ELSE Catch(c, "SyntaxError", "Unexpected end of JSON input", "jsonError", 0)
    /\ UNCHANGED <<headersOpt, autoFetch, phase, controllerRef, nCalls, pendingAbort,
                   autoGets, extRendered, authVars, counterVars, formVars>>

JsonSettles == \E c \in CallIds, j \in JsonResults : BodyRead(c, j)

\* The microtask of an aborted call: its pending await rejects with an AbortError.
AbortSettles ==
    /\ pendingAbort # 0
    /\ Catch(pendingAbort, "AbortError", "The user aborted a request.", "cancelled", 0)
    /\ pendingAbort' = 0
    /\ UNCHANGED <<headersOpt, autoFetch, phase, controllerRef, nCalls, autoGets,
                   extRendered, authVars, counterVars, formVars>>

FetchStart ==
    /\ phase = "idle"
    /\ data = << >>
    /\ hasError = << >>
    /\ isLoading = FALSE
    /\ needRender = FALSE
    /\ controllerRef = 0
    /\ calls = [c \in CallIds |-> NoCallRec]
    /\ nCalls = 0
    /\ pendingAbort = 0
    /\ lastEv = NoEv
    /\ lateWrites = {}
    /\ autoGets = 0
    /\ extRendered = FALSE

FetchInit ==
    /\ headersOpt \in {"omitted", "inline", "stable"}
    /\ autoFetch \in BOOLEAN
    /\ FetchStart

\* The hook is not used.
FetchIdle ==
    /\ headersOpt = "stable"
    /\ autoFetch = FALSE
    /\ FetchStart

\* The auth provider is not used.
AuthIdle ==
    /\ storage = << >>
    /\ provider = "idle"
    /\ authState = Spread(initialAuthState, << >>)
    /\ warned = FALSE
    /\ lastCall = NoCall
    /\ redState = initialAuthState
    /\ redPrev = initialAuthState
    /\ redAction = [type |-> "none", payload |-> JsUndefined]

FetchNext ==
    \/ Mount
    \/ get
    \/ post
    \/ put
    \/ patch
    \/ remove
    \/ RenderOnStateUpdate
    \/ RenderFromOutside
    \/ Unmount
    \/ FetchSettles
    \/ JsonSettles
    \/ AbortSettles

(***************************************************************************)
(* useCounter.js: one instance of the hook.  `count` is the state cell;    *)
(* the functions a caller holds are those of the last render, and they     *)
(* close over the count and the initialValue that render read.  A caller   *)
(* may call several of them before React renders again.                    *)
(***************************************************************************)
MaxCount == 4
MaxAmount == 2
MaxInitial == 2

\* initialValue: non-negative integers (the default is 0).
InitialValues == 0..MaxInitial

\* value: non-negative integers (the default is 1).
Amounts == 0..MaxAmount

NoPair == [stage |-> "none", c |-> 0, a |-> 0, mid |-> FALSE]

\* useCounter(initialValue), first render: useState(initialValue).
CounterMount ==
    /\ cPhase = "idle"
    /\ \E initialValue \in InitialValues :
          /\ count' = initialValue
          /\ rCount' = initialValue
          /\ rInit' = initialValue
          /\ init0' = initialValue
    /\ cPhase' = "mounted"
    /\ cLast' = "mount"
    /\ UNCHANGED <<pair, authVars, fetchVars, formVars>>

\* useCounter(initialValue), a later render: useState returns the state cell
\* and ignores its argument; new closures are made.
CounterRender ==
    /\ cPhase = "mounted"
    /\ \E initialValue \in InitialValues : rInit' = initialValue
    /\ rCount' = count
    /\ cLast' = "render"
    /\ pair' = IF pair.stage = "inc" THEN [pair EXCEPT !.mid = TRUE] ELSE pair
    /\ UNCHANGED <<cPhase, count, init0, authVars, fetchVars, formVars>>

\* increment(value): setCount(count + value), count being the closure's.
incrementedCount(value) == rCount + value

increment ==
    /\ cPhase = "mounted"
    /\ \E value \in Amounts :
          /\ incrementedCount(value) <= MaxCount
          /\ count' = incrementedCount(value)
          /\ pair' = [stage |-> "inc", c |-> count, a |-> value, mid |-> FALSE]
    /\ cLast' = "increment"
    /\ UNCHANGED <<cPhase, rCount, rInit, init0, authVars, fetchVars, formVars>>

\* decrement(value): return if the closure's count is 0, else
\* setCount(count - value).
decrementReturnsEarly == rCount = 0

decrement ==
    /\ cPhase = "mounted"
    /\ \E value \in Amounts :
          /\ rCount - value >= -MaxCount
          /\ count' = IF decrementReturnsEarly THEN count ELSE rCount - value
          /\ pair' = IF pair.stage = "inc" /\ pair.a = value
                     THEN [pair EXCEPT !.stage = "done"]
                     ELSE NoPair
    /\ cLast' = "decrement"
    /\ UNCHANGED <<cPhase, rCount, rInit, init0, authVars, fetchVars, formVars>>

\* reset(): setCount(initialValue), initialValue being the closure's.
resetValueOfFirstRender == init0

resetValue == rInit

reset ==
    /\ cPhase = "mounted"
    /\ count' = resetValue
    /\ cLast' = "reset"
    /\ pair' = NoPair
    /\ UNCHANGED <<cPhase, rCount, rInit, init0, authVars, fetchVars, formVars>>

\* The hook is not used.
CounterIdle ==
    /\ cPhase = "idle"
    /\ count = 0
    /\ rCount = 0
    /\ rInit = 0
    /\ init0 = 0
    /\ cLast = "none"
    /\ pair = NoPair

CounterNext ==
    \/ CounterMount
    \/ CounterRender
    \/ increment
    \/ decrement
    \/ reset

(***************************************************************************)
(* useForm.js: one instance of the hook.  formState and errors are state   *)
(* cells holding objects; React compares what a setter is handed, and the  *)
(* dependencies of an effect, by identity.  One FormRender is one render   *)
(* of the owning unit together with the effects that run after it.         *)
(***************************************************************************)
MaxUserCalls == 3

EmptyMap == [k \in {} |-> ""]

\* { ...prev, [name]: v }
WithField(prev, name, v) ==
    [k \in (DOMAIN prev) \cup {name} |-> IF k = name THEN v ELSE prev[k]]

\* The initial mappings a caller passes: a text field and a checkbox.
InitialForms ==
    { [name |-> "", agree |-> FALSE], [name |-> "x", agree |-> TRUE] }

\* event.target of a change event.
Targets ==
    { [name |-> "name", type |-> "text", value |-> v, checked |-> FALSE] : v \in {"", "x"} }
    \cup { [name |-> "agree", type |-> "checkbox", value |-> "on", checked |-> b] : b \in BOOLEAN }

\* !form[k]
Missing(form, k) ==
    \/ k \notin DOMAIN form
    \/ k = "name" /\ form[k] = ""
    \/ k = "agree" /\ form[k] = FALSE

\* Validation functions in the style of the README: an error message for
\* every required field that is empty.
ValidateFns == {"requireName", "requireAll"}

RequiredFields(fn) == IF fn = "requireName" THEN {"name"} ELSE {"name", "agree"}

Validate(fn, form) ==
    [k \in {f \in RequiredFields(fn) : Missing(form, f)} |-> k \o " is required"]

\* Object.keys(errors).length === 0
NoKeys(errs) == DOMAIN errs = {}

\* useEffect(..., [initialForm]) of a re-render: a default {} or an inline
\* literal is a new object in every render.
InitialFormChanged == initialFormOpt # "stable"

\* useEffect(..., [formState, validateFn]) of a re-render.
ValidationDepsChangedByFunctionOnly == validateOpt = "inline"

ValidationDepsChanged == formStateSet \/ validateOpt = "inline"

\* if (validateFn) setErrors(validateFn(formState) || {}): what the effect of a
\* render that read `form` hands to setErrors.
ValidationEffect(form, errs, runs) ==
    IF runs /\ validateOpt # "omitted"
    THEN [set |-> TRUE, errors |-> Validate(validateFn, form)]
    ELSE [set |-> FALSE, errors |-> errs]

\* useForm(initialForm, validateFn), first render and its effects: setFormState
\* is handed the object the cell already holds; the validation effect runs.
FormMount ==
    /\ fPhase = "idle"
    /\ fPhase' = "mounted"
    /\ formState' = initialForm
    /\ formIsInitial' = TRUE
    /\ isValid' = NoKeys(EmptyMap)
    /\ LET v == ValidationEffect(initialForm, EmptyMap, TRUE)
       IN /\ errors' = v.errors
          /\ fNeedRender' = v.set
    /\ formStateSet' = FALSE
    /\ renderParity' = 1
    /\ UNCHANGED <<initialFormOpt, initialForm, validateOpt, validateFn, fLast, userCalls,
                   authVars, fetchVars, counterVars>>

\* A re-render caused by a state update, and the effects whose dependencies
\* changed: both read the formState and errors of this render.
FormRender ==
    /\ fPhase = "mounted"
    /\ fNeedRender
    /\ isValid' = NoKeys(errors)
    /\ renderParity' = (renderParity + 1) % 2
    /\ LET v == ValidationEffect(formState, errors, ValidationDepsChanged)
       IN /\ errors' = v.errors
          /\ formState' = IF InitialFormChanged THEN initialForm ELSE formState
          /\ formIsInitial' = (InitialFormChanged \/ formIsInitial)
          /\ formStateSet' = InitialFormChanged
          /\ fNeedRender' = (InitialFormChanged \/ v.set)
    /\ UNCHANGED <<fPhase, initialFormOpt, initialForm, validateOpt, validateFn, fLast,
                   userCalls, authVars, fetchVars, counterVars>>

\* onInputChange({ target }): a new object with one field replaced.
onInputChange ==
    /\ fPhase = "mounted"
    /\ userCalls < MaxUserCalls
    /\ \E target \in Targets :
          formState' = WithField(formState, target.name,
                                 IF target.type = "checkbox" THEN target.checked
                                                             ELSE target.value)
    /\ formIsInitial' = FALSE
    /\ formStateSet' = TRUE
    /\ fNeedRender' = TRUE
    /\ fLast' = "onInputChange"
    /\ userCalls' = userCalls + 1
    /\ UNCHANGED <<fPhase, initialFormOpt, initialForm, validateOpt, validateFn, errors,
                   isValid, renderParity, authVars, fetchVars, counterVars>>

\* onResetForm(): setFormState(initialForm); setErrors({}).
onResetForm ==
    /\ fPhase = "mounted"
    /\ userCalls < MaxUserCalls
    /\ formState' = initialForm
    /\ formIsInitial' = TRUE
    /\ formStateSet' = (formStateSet \/ ~formIsInitial)
    /\ errors' = EmptyMap
    /\ fNeedRender' = TRUE
    /\ fLast' = "onResetForm"
    /\ userCalls' = userCalls + 1
    /\ UNCHANGED <<fPhase, initialFormOpt, initialForm, validateOpt, validateFn, isValid,
                   renderParity, authVars, fetchVars, counterVars>>

FormStart ==
    /\ fPhase = "idle"
    /\ formState = EmptyMap
    /\ formIsInitial = TRUE
    /\ errors = EmptyMap
    /\ isValid = TRUE
    /\ formStateSet = FALSE
    /\ fNeedRender = FALSE
    /\ fLast = "none"
    /\ userCalls = 0
    /\ renderParity = 0

FormInit ==
    /\ initialFormOpt \in {"omitted", "inline", "stable"}
    /\ initialForm \in (IF initialFormOpt = "omitted" THEN {EmptyMap} ELSE InitialForms)
    /\ validateOpt \in {"omitted", "inline", "stable"}
    /\ validateFn \in (IF validateOpt = "omitted" THEN {"none"} ELSE ValidateFns)
    /\ FormStart

\* The hook is not used.
FormIdle ==
    /\ initialFormOpt = "stable"
    /\ initialForm = EmptyMap
    /\ validateOpt = "omitted"
    /\ validateFn = "none"
    /\ FormStart

FormNext ==
    \/ FormMount
    \/ FormRender
    \/ onInputChange
    \/ onResetForm

InitAuth == AuthInit /\ FetchIdle /\ CounterIdle /\ FormIdle

InitFetch == FetchInit /\ AuthIdle /\ CounterIdle /\ FormIdle

InitCounter == CounterIdle /\ AuthIdle /\ FetchIdle /\ FormIdle

InitForm == FormInit /\ AuthIdle /\ FetchIdle /\ CounterIdle

SpecAuth == InitAuth /\ [][AuthNext]_vars

SpecFetch == InitFetch /\ [][FetchNext]_vars

SpecCounter == InitCounter /\ [][CounterNext]_vars

SpecForm == InitForm /\ [][FormNext]_vars

\* React runs a re-render that a state update asked for: a pending FormRender
\* is never postponed forever.  The caller's calls are under no obligation.
SpecFormFair == InitForm /\ [][FormNext]_vars /\ WF_vars(FormRender)

(***************************************************************************)
(* Auth claims                                                             *)
(***************************************************************************)
\* onLogIn / onLogOut exist only in a provider that rendered; none ever does.
ProviderNeverMounts == provider # "mounted"

LoggedIffData(st) == st.logged <=> (st.data # JsNull)

\* C1 (as claimed): in every state produced by initializeAuthState and
\* authReducer, and in every state the provider publishes, logged is true
\* exactly when data is non-null.
C1_LoggedIffDataNonNull ==
    /\ LoggedIffData(redState)
    /\ LoggedIffData(authState)

\* C2 (as claimed): an activated provider serves onLogIn / onLogOut, and after
\* the last such call state and slot agree: after onLogIn(p) logged = true,
\* data = p and the slot holds JSON.stringify(p); after onLogOut() logged =
\* false, data = null and the slot is absent.
C2_StateAndSlotAgree ==
    provider # "idle" =>
        /\ provider = "mounted"
        /\ lastCall.op = "onLogIn" =>
              /\ authState = [logged |-> TRUE, data |-> lastCall.payload]
              /\ storage = << ToDOMString(JSONstringify(lastCall.payload)) >>
        /\ lastCall.op = "onLogOut" =>
              /\ authState = [logged |-> FALSE, data |-> JsNull]
              /\ storage = << >>

\* C3 (as claimed): after activation the provider holds the state the slot
\* determines: LoggedOut when the slot is absent, LoggedIn with the parsed
\* value when the slot holds valid JSON text.
C3_InitialStateFromSlot ==
    provider # "idle" =>
        /\ provider = "mounted"
        /\ storage = << >> => authState = [logged |-> FALSE, data |-> JsNull]
        /\ (storage # << >> /\ storage[1] \in ValidJsonTexts) =>
              authState = [logged |-> TRUE, data |-> JSONparse(storage[1]).value]

\* C4 (as claimed): activation over a slot holding invalid JSON does not
\* throw: the provider is up, logged out, and the parse failure was warned.
C4_InvalidJsonDoesNotThrow ==
    (provider # "idle" /\ storage # << >> /\ storage[1] \notin ValidJsonTexts) =>
        /\ provider = "mounted"
        /\ authState = [logged |-> FALSE, data |-> JsNull]
        /\ storage[1] # "" => warned

\* C5: authReducer returns {logged: true, data: p} for LOGIN with payload p,
\* the static initial state for LOGOUT, and a state equal to the current one
\* for any other action type.
C5_ReducerTransitions ==
    /\ redAction.type = authTypes.login =>
          redState = [logged |-> TRUE, data |-> redAction.payload]
    /\ redAction.type = authTypes.logout =>
          redState = [logged |-> FALSE, data |-> JsNull]
    /\ redAction.type \notin {authTypes.login, authTypes.logout, "none"} =>
          redState = redPrev

\* C5 witness: a foreign action passed through a logged-in state.
C5_Witness ==
    /\ redAction.type = "[Auth] Refresh"
    /\ redPrev.logged
    /\ redPrev.data = JsObj("\"id\":1")
    /\ redState = redPrev

(***************************************************************************)
(* Request executor claims                                                 *)
(***************************************************************************)
HttpMessageOf(status) ==
    CASE status = 404 -> "HTTP 404: Not Found"
      [] status = 500 -> "HTTP 500: Internal Server Error"
      [] OTHER -> "?"

FailureKinds == {"httpError", "networkError", "jsonError"}

\* C6: a call that starts leaves isLoading = true and hasError = null; a call
\* that completed has written exactly one of the two cells, data on success
\* and hasError on failure, and isLoading is false when it has completed.
C6_CallLifecycle ==
    /\ lastEv.kind = "start" => (isLoading /\ hasError = << >>)
    /\ \A c \in CallIds :
          /\ calls[c].outcome = "success" => calls[c].wrote = {"data"}
          /\ calls[c].outcome = "failure" => calls[c].wrote = {"hasError"}
    /\ lastEv.kind \in FailureKinds \cup {"success"} => ~isLoading

\* C6 witness: one call has completed with success, another has just failed.
C6_Witness ==
    /\ lastEv.kind \in FailureKinds
    /\ \E c \in CallIds : calls[c].outcome = "success"
    /\ data # << >>
    /\ hasError # << >>

\* C7 (as claimed): after a non-2xx response hasError is the HTTP message, data
\* has the value it had before the call, and isLoading is false.
C7_DataAsBeforeTheCall ==
    lastEv.kind = "httpError" =>
        /\ hasError = << HttpMessageOf(lastEv.status) >>
        /\ data = calls[lastEv.call].dataBefore
        /\ ~isLoading

\* C7 (amended): the step in which a call receives a non-2xx response sets
\* hasError to the HTTP message, leaves data as it is, and leaves isLoading
\* false.
C7_HttpErrorLeavesData ==
    [][(lastEv' # lastEv /\ lastEv'.kind = "httpError") =>
          /\ hasError' = << HttpMessageOf(lastEv'.status) >>
          /\ data' = data
          /\ ~isLoading']_vars

\* C7 witness: a 404 received while data holds an earlier result.
C7_Witness ==
    /\ lastEv.kind = "httpError"
    /\ lastEv.status = 404
    /\ hasError = << "HTTP 404: Not Found" >>
    /\ data # << >>
    /\ ~isLoading

\* C8 (as claimed): once a cancelled call has settled, hasError is null and
\* isLoading is false.
C8_CancelledLeavesNoError ==
    lastEv.kind = "cancelled" => (hasError = << >> /\ ~isLoading)

\* C8 (amended): the step in which a cancelled call settles leaves hasError
\* as it is and leaves isLoading false; the call has written neither cell.
C8_CancelNotSurfaced ==
    [][(lastEv' # lastEv /\ lastEv'.kind = "cancelled") =>
          /\ hasError' = hasError
          /\ ~isLoading'
          /\ calls'[lastEv'.call].wrote = {}]_vars

\* C8 witness: a call cancelled by teardown has settled.
C8_Witness ==
    /\ lastEv.kind = "cancelled"
    /\ phase = "torn"
    /\ calls[lastEv.call].outcome = "cancelled"
    /\ hasError = << >>
    /\ ~isLoading

\* C9 (as claimed): with autoFetch, and no re-render but those the request's
\* own state updates cause, exactly one automatic GET has been issued once
\* the unit is activated, whatever the headers option.
C9_OneAutomaticGet ==
    (autoFetch /\ phase # "idle" /\ ~extRendered) => autoGets = 1

\* C10 (as claimed): after teardown every call still in flight is aborted and
\* no call has written data or hasError since.
C10_TeardownAbortsAll ==
    phase = "torn" =>
        /\ \A c \in CallIds : calls[c].status \in InFlight => calls[c].aborted
        /\ lateWrites \cap {"data", "hasError"} = {}

\* C16: a call's cancellation handle is signalled only by teardown of the
\* owning unit: while the unit stays mounted no in-flight call is aborted,
\* neither by starting another call nor by a re-render.
C16_AbortOnlyAtTeardown ==
    phase = "mounted" =>
        /\ pendingAbort = 0
        /\ \A c \in CallIds : calls[c].outcome # "cancelled"

CallsInFlight == { c \in CallIds : calls[c].status \in InFlight }

\* C17 as stated: at most one request is in flight per executor instance at
\* any time.
C17_AtMostOneInFlight ==
    Cardinality(CallsInFlight) <= 1

\* C17, amended: at most one call is tracked by the instance: controllerRef
\* holds the cancellation handle of the call started last (none before the
\* first call), however many calls are in flight.
C17_OnlyLastCallTracked ==
    controllerRef = nCalls

\* C17 witness: two calls are in flight in a mounted unit and only the later
\* one is reachable through controllerRef.
C17_Witness ==
    /\ phase = "mounted"
    /\ Cardinality(CallsInFlight) >= 2
    /\ controllerRef = nCalls
    /\ \E c \in CallsInFlight : c # controllerRef

\* C18 as stated: when two calls overlap, the final data, hasError and
\* isLoading are those written by the call that completes last: after a
\* success that is data set, hasError null (the call cleared it when it
\* started) and isLoading false; after a failure hasError set and isLoading
\* false.
C18_LastCompletionWins ==
    /\ lastEv.kind = "success" =>
          (data # << >> /\ hasError = << >> /\ ~isLoading)
    /\ lastEv.kind \in FailureKinds =>
          (hasError # << >> /\ ~isLoading)

\* C18, amended: the completion of a call changes no other call (none is
\* cancelled or awaited), sets isLoading false and writes the call's own cell
\* only: a success writes data and leaves hasError as it is, a failure writes
\* hasError and leaves data as it is.  Each cell so ends with the value of the
\* last call that wrote it.
C18_CompletionWritesOwnCell ==
    [][ (lastEv' # lastEv /\ lastEv'.kind \in ({"success"} \cup FailureKinds)) =>
            /\ \A k \in CallIds \ {lastEv'.call} : calls'[k] = calls[k]
            /\ calls'[lastEv'.call].status = "settled"
            /\ ~isLoading'
            /\ lastEv'.kind = "success" => (data' # << >> /\ hasError' = hasError)
            /\ lastEv'.kind \in FailureKinds => (hasError' # << >> /\ data' = data) ]_vars

\* C18 witness: two calls overlapped in a mounted unit and both completed: the
\* one that completed last succeeded, and hasError still holds the message of
\* the other one's failure.
C18_Witness ==
    /\ phase = "mounted"
    /\ lastEv.kind = "success"
    /\ Cardinality({ c \in CallIds : calls[c].status = "settled" }) = 2
    /\ \E c \in CallIds : calls[c].outcome = "failure" /\ c # lastEv.call
    /\ \A c \in CallIds : calls[c].outcome # "cancelled"
    /\ data # << >>
    /\ hasError # << >>
    /\ ~isLoading

\* The payloads JSON.stringify turns into text.
JsonPayloads == Payloads \ { JsUndefined }

\* C19: the storage slot mirrors data across activations: over the slot that
\* onLogIn(p) leaves, for any JSON-serializable p, an activation yields
\* logged = true and data = p; over the slot that onLogOut() leaves (none) it
\* yields logged = false and data = null.
C19_StorageMirrorsData ==
    provider # "idle" =>
        /\ \A p \in JsonPayloads :
              storage = << ToDOMString(JSONstringify(p)) >> =>
                  (provider = "mounted" /\ authState = [logged |-> TRUE, data |-> p])
        /\ storage = << >> =>
              (provider = "mounted" /\ authState = [logged |-> FALSE, data |-> JsNull])

(***************************************************************************)
(* Counter claims                                                          *)
(***************************************************************************)

\* C11: the counter is never negative: starting from a non-negative initial
\* value, after any sequence of increment(a), decrement(a) and reset() calls
\* with non-negative amounts a, count >= 0.  (InitialValues and Amounts hold
\* non-negative integers only.)
C11_CountNeverNegative ==
    cPhase = "mounted" => count >= 0

\* C12: for any count c and any amount a, increment(a) followed by
\* decrement(a) leaves count equal to c, whether or not a re-render happens
\* between the two calls.
C12_IncrementThenDecrement ==
    pair.stage = "done" => count = pair.c

\* C13 as stated: reset() sets count to the value that was passed when the
\* counter was constructed.
C13_ResetToConstructionValue ==
    cLast = "reset" => count = init0

\* C13, amended: reset() sets count to the initialValue of the render whose
\* reset function was called (the last render), whatever increment and
\* decrement calls came before.
C13_ResetToRenderedInitialValue ==
    cLast = "reset" => count = rInit

\* C13 witness: after increments and a re-render with another initialValue,
\* reset() has just set a count that differs from the constructed value.
C13_Witness ==
    /\ cLast = "reset"
    /\ rInit # init0
    /\ count = rInit
    /\ rCount # count

(***************************************************************************)
(* Form claims                                                             *)
(***************************************************************************)

\* No re-render is pending: the last render and its effects left no update.
FormSettled == fPhase = "mounted" /\ ~fNeedRender

\* C14: with a validation function supplied, after any onInputChange, once
\* the re-renders and effects it caused have settled, errors equals
\* validateFn(formState) and isValid is true exactly when errors has no keys.
C14_ErrorsFollowFormState ==
    (FormSettled /\ validateOpt # "omitted" /\ fLast = "onInputChange")
        => /\ errors = Validate(validateFn, formState)
           /\ isValid = NoKeys(errors)

\* C14 witness: an edited form has settled with an error for a required
\* field, after at least two edits, and isValid is false.
C14_Witness ==
    /\ FormSettled
    /\ validateOpt # "omitted"
    /\ fLast = "onInputChange"
    /\ userCalls >= 2
    /\ ~formIsInitial
    /\ formState # initialForm
    /\ ~NoKeys(errors)
    /\ ~isValid

\* C15: onResetForm() restores formState to the initial mapping and leaves
\* errors empty (hence isValid true) once the reset has settled, for any
\* validation function and any prior edits.
C15_ResetClearsErrors ==
    (FormSettled /\ fLast = "onResetForm")
        => /\ formState = initialForm
           /\ NoKeys(errors)
           /\ isValid

\* C20: useForm reaches a settled state: after mount and after each
\* onInputChange the cycle of re-renders and effects stops after finitely
\* many steps, also when initialForm is a new object in every render.  The
\* caller makes finitely many calls, so from some point on no re-render is
\* pending; stated for callers whose validateFn (if any) keeps its identity.
C20_RendersStop ==
    validateOpt # "inline" => <>[](~fNeedRender)

====
